---------------------------- MODULE Spec2Model ----------------------------
(***************************************************************************)
(* A model of pywingetupgrader.py: the fixed-width table parser, the       *)
(* semantic-version classifier, the allow/block overrides and main's run   *)
(* over them.                                                              *)
(*                                                                         *)
(* Python strings are sequences of one-character strings.  A Python dict   *)
(* is an insertion-ordered sequence of <<key, value>> pairs.  The dicts of *)
(* a run live in `heap`; a Python list of dicts is a sequence of indices   *)
(* into the heap, so that two lists holding the same dict alias it.        *)
(***************************************************************************)
EXTENDS Integers, Sequences, FiniteSets, TLC

VARIABLES
    environ,                        \* os.environ: the three WINGET_* variables
    packages,                       \* what winget has to report (environment)
    pc,                             \* main's position
    WINGET_DEBUG,                   \* main's locals ...
    upgrade_level,
    upgrade_unknowns,
    winget_exe_path,
    upgradable_applications_table,
    heap,                           \* the dict objects created by the parser
    applications,
    applications_using_semver,
    apps_to_upgrade,
    idx,                            \* position of the upgrade loop (1-based)
    attempted,                      \* Ids handed to "winget upgrade --id", in order
    outcome,                        \* how the last external call ended
    emitted,                        \* log records written by the last step
    raised                          \* the exception main's handlers caught

vars == <<environ, packages, pc, WINGET_DEBUG, upgrade_level, upgrade_unknowns,
          winget_exe_path, upgradable_applications_table, heap, applications,
          applications_using_semver, apps_to_upgrade, idx, attempted, outcome,
          emitted, raised>>

-----------------------------------------------------------------------------
(* Bounds of the model.                                                    *)

MaxRows == 2          \* data rows of a table
MaxHeaderLen == 4     \* characters of a header line (parser specification)
MaxRowLen == 3        \* characters of a data row (parser specification)

-----------------------------------------------------------------------------
(* Python's str operations, on sequences of characters.                    *)

Chars(s) == [i \in 1..Len(s) |-> SubSeq(s, i, i)]

None == <<"None">>
Str(s) == <<"str", s>>

BEL == "BEL"          \* U+0007: not printable, not whitespace

IsSpace(c) == c \in {" ", "\t", "\r", "\n"}

IsPrintableChar(c) == c # BEL /\ c \notin {"\t", "\r", "\n"}

isprintable(s) == \A i \in 1..Len(s) : IsPrintableChar(s[i])

Min(a, b) == IF a < b THEN a ELSE b
Max(a, b) == IF a > b THEN a ELSE b

\* s[a:b] and s[a:], with Python's treatment of negative and out-of-range
\* indices.
SliceIndex(i, n) == IF i < 0 THEN Max(i + n, 0) ELSE Min(i, n)

Slice(s, a, b) ==
    LET lo == SliceIndex(a, Len(s))
        hi == SliceIndex(b, Len(s))
    IN  IF lo >= hi THEN <<>> ELSE SubSeq(s, lo + 1, hi)

SliceFrom(s, a) ==
    LET lo == SliceIndex(a, Len(s))
    IN  IF lo >= Len(s) THEN <<>> ELSE SubSeq(s, lo + 1, Len(s))

\* The first position from i up, and the last from i down, that holds no
\* whitespace (Len(s) + 1 and 0 when there is none).
RECURSIVE FirstNonSpace(_, _)
FirstNonSpace(s, i) ==
    IF i > Len(s) \/ ~IsSpace(s[i]) THEN i ELSE FirstNonSpace(s, i + 1)

RECURSIVE LastNonSpace(_, _)
LastNonSpace(s, i) ==
    IF i < 1 \/ ~IsSpace(s[i]) THEN i ELSE LastNonSpace(s, i - 1)

strip(s) == SubSeq(s, FirstNonSpace(s, 1), LastNonSpace(s, Len(s)))

\* s.find(sub): the 0-based index of the first occurrence, or -1.
RECURSIVE FindFrom(_, _, _)
FindFrom(s, sub, i) ==
    IF i + Len(sub) > Len(s) THEN -1
    ELSE IF SubSeq(s, i + 1, i + Len(sub)) = sub THEN i
    ELSE FindFrom(s, sub, i + 1)

find(s, sub) == FindFrom(s, sub, 0)

\* The 1-based positions at which a whitespace-delimited token of s begins.
TokenStarts(s) ==
    {i \in 1..Len(s) : ~IsSpace(s[i]) /\ (i = 1 \/ IsSpace(s[i - 1]))}

\* The last position of the token that begins at i.
RECURSIVE TokenEnd(_, _)
TokenEnd(s, i) ==
    IF i = Len(s) \/ IsSpace(s[i + 1]) THEN i ELSE TokenEnd(s, i + 1)

TokenAt(s, i) == SubSeq(s, i, TokenEnd(s, i))

RECURSIVE Ascending(_)
Ascending(S) ==
    IF S = {} THEN <<>>
    ELSE LET m == CHOOSE i \in S : \A j \in S : i <= j
         IN  <<m>> \o Ascending(S \ {m})

\* s.split(): the whitespace-delimited tokens of s, in order.
split(s) ==
    LET starts == Ascending(TokenStarts(s))
    IN  [k \in 1..Len(starts) |-> TokenAt(s, starts[k])]

\* s.split(sep) for a separator no two occurrences of which can overlap (a
\* single character, or CR LF): the parts between the occurrences, always at
\* least one part.
PartsBetween(s, at, n) ==
    [k \in 1..(Len(at) + 1) |->
        SubSeq(s, IF k = 1 THEN 1 ELSE at[k - 1] + n,
                  IF k > Len(at) THEN Len(s) ELSE at[k] - 1)]

SplitOn(s, sep) ==
    PartsBetween(s, Ascending({i \in 1..(Len(s) - Len(sep) + 1) :
                                  \A k \in 1..Len(sep) : s[i + k - 1] = sep[k]}),
                 Len(sep))

UpperCase == Chars("ABCDEFGHIJKLMNOPQRSTUVWXYZ")
LowerCase == Chars("abcdefghijklmnopqrstuvwxyz")

LowerChar(c) ==
    IF \E i \in 1..26 : UpperCase[i] = c
    THEN LowerCase[CHOOSE i \in 1..26 : UpperCase[i] = c]
    ELSE c

lower(s) == [i \in 1..Len(s) |-> LowerChar(s[i])]

Digits == Chars("0123456789")

IsDigit(c) == \E i \in 1..10 : Digits[i] = c

DigitValue(c) == (CHOOSE i \in 1..10 : Digits[i] = c) - 1

\* int(s) for a string the semantic-version pattern let through: digits,
\* with surrounding whitespace ignored.
RECURSIVE IntOfDigits(_)
IntOfDigits(s) ==
    IF s = <<>> THEN 0
    ELSE 10 * IntOfDigits(SubSeq(s, 1, Len(s) - 1)) + DigitValue(s[Len(s)])

int(s) == IntOfDigits(strip(s))

-----------------------------------------------------------------------------
(* Python's dict, insertion-ordered.                                       *)

DictHas(d, k) == \E i \in 1..Len(d) : d[i][1] = k

DictGet(d, k) == d[CHOOSE i \in 1..Len(d) : d[i][1] = k][2]

\* d[k] = v: a key already present keeps its place and takes the new value.
DictSet(d, k, v) ==
    IF DictHas(d, k)
    THEN [i \in 1..Len(d) |-> IF d[i][1] = k THEN <<k, v>> ELSE d[i]]
    ELSE Append(d, <<k, v>>)

DictKeys(d) == [i \in 1..Len(d) |-> d[i][1]]

-----------------------------------------------------------------------------
(* The table parser.  A function that can raise returns                    *)
(* [error |-> name, value |-> v], error = "" when it returns normally.     *)

Ok(v) == [error |-> "", value |-> v]
Raise(e) == [error |-> e, value |-> <<>>]

\* Mutant: a header line without a printable label yields no columns
\* instead of raising.
get_headers_NoLabelsAccepted(rows) ==
    IF rows = <<>> THEN Raise("IndexError")
    ELSE
    LET header_row == rows[1]
        headers == SelectSeq(split(header_row), isprintable)
    IN  IF headers = <<>> THEN Ok(<<>>)
        ELSE LET first_header_offset == find(header_row, headers[1])
             IN  Ok([i \in 1..Len(headers) |->
                        <<headers[i], find(header_row, headers[i]) - first_header_offset>>])

get_headers_and_their_starting_positions(rows) ==
    IF rows = <<>> THEN Raise("IndexError")              \* rows[0]
    ELSE
    LET header_row == rows[1]
        headers == SelectSeq(split(header_row), isprintable)
    IN  IF headers = <<>> THEN Raise("IndexError")       \* headers[0]
        ELSE LET first_header_offset == find(header_row, headers[1])
             IN  Ok([i \in 1..Len(headers) |->
                        <<headers[i], find(header_row, headers[i]) - first_header_offset>>])

\* Mutant: a column the row does not reach gets no key.
RECURSIVE RecordOfRow_SkipsShort(_, _, _)
RecordOfRow_SkipsShort(row, hp, i) ==
    IF i = 0 THEN <<>>
    ELSE IF hp[i][2] > Len(row) THEN RecordOfRow_SkipsShort(row, hp, i - 1)
    ELSE LET value == IF i < Len(hp)
                      THEN strip(Slice(row, hp[i][2], hp[i + 1][2]))
                      ELSE strip(SliceFrom(row, hp[i][2]))
         IN  DictSet(RecordOfRow_SkipsShort(row, hp, i - 1), hp[i][1], value)

\* The dict built from one row (lines 41-49).
RECURSIVE RecordOfRow(_, _, _)
RecordOfRow(row, hp, i) ==
    IF i = 0 THEN <<>>
    ELSE LET value == IF i < Len(hp)
                      THEN strip(Slice(row, hp[i][2], hp[i + 1][2]))
                      ELSE strip(SliceFrom(row, hp[i][2]))
         IN  DictSet(RecordOfRow(row, hp, i - 1), hp[i][1], value)

CRLF == <<"\r", "\n">>

\* The value is the list of dicts, in row order.
extract_applications_from_table(output) ==
    IF output = None THEN Raise("AttributeError")        \* None.split
    ELSE
    LET parts == SplitOn(output[2], CRLF)
        rows  == SubSeq(parts, 1, Len(parts) - 2)        \* [:-2]
        hp    == get_headers_and_their_starting_positions(rows)
    IN  IF hp.error # "" THEN hp
        ELSE Ok([r \in 1..(Len(rows) - 2) |->
                    RecordOfRow(rows[r + 2], hp.value, Len(hp.value))])

-----------------------------------------------------------------------------
(* The semantic-version classifier.  Its functions read and write the dicts *)
(* of the heap h; those that write return the new heap with their value.   *)

K_Id        == Chars("Id")
K_Version   == Chars("Version")
K_Available == Chars("Available")

K_current_major   == Chars("current_major")
K_current_minor   == Chars("current_minor")
K_current_patch   == Chars("current_patch")
K_available_major == Chars("available_major")
K_available_minor == Chars("available_minor")
K_available_patch == Chars("available_patch")

\* SEMVER_PATTERN.match(s) for ^\d+?\.\d+?\.\d+$ : three non-empty runs of
\* digits joined by dots; $ also matches before one final newline.
SEMVER_PATTERN_match(s) ==
    LET core  == IF s # <<>> /\ s[Len(s)] = "\n" THEN SubSeq(s, 1, Len(s) - 1) ELSE s
        parts == SplitOn(core, <<".">>)
    IN  /\ Len(parts) = 3
        /\ \A i \in 1..3 : parts[i] # <<>> /\ \A j \in 1..Len(parts[i]) : IsDigit(parts[i][j])

Done(h, v) == [error |-> "", heap |-> h, value |-> v]
Fail(e, h) == [error |-> e, heap |-> h, value |-> <<>>]

\* d with the three integers of the version string d[field] stored under
\* the keys k (lines 84-87, 89-92); d when d[field] is no semantic version.
WithVersionTriple(d, k, v) ==
    DictSet(DictSet(DictSet(d, k[1], int(v[1])), k[2], int(v[2])), k[3], int(v[3]))

Annotated(d, field, k) ==
    IF SEMVER_PATTERN_match(DictGet(d, field))
    THEN WithVersionTriple(d, k, SplitOn(DictGet(d, field), <<".">>))
    ELSE d

CurrentKeys   == <<K_current_major, K_current_minor, K_current_patch>>
AvailableKeys == <<K_available_major, K_available_minor, K_available_patch>>

\* Lines 88-94, d1 being the dict after lines 83-87.
AddAvailableDetails(h, a, d1) ==
    IF ~DictHas(d1, K_Available) THEN Fail("KeyError", [h EXCEPT ![a] = d1])
    ELSE Done([h EXCEPT ![a] = Annotated(d1, K_Available, AvailableKeys)], a)

\* Mutant: the annotations go to a copy that is dropped; the dict of the
\* heap is left as parsed.
add_semver_details_OnCopy(h, a) ==
    IF ~DictHas(h[a], K_Version) \/ ~DictHas(h[a], K_Available) THEN Fail("KeyError", h)
    ELSE Done(h, a)

\* Writes the annotations into the dict h[a] itself and returns a.
add_semver_details(h, a) ==
    IF ~DictHas(h[a], K_Version) THEN Fail("KeyError", h)
    ELSE AddAvailableDetails(h, a, Annotated(h[a], K_Version, CurrentKeys))

Collect(before, r) ==
    IF r.error # "" THEN r ELSE Done(r.heap, Append(before.value, r.value))

\* One element of the comprehension of lines 74-79: the condition, with the
\* short circuit of its `or`, then add_semver_details.
SemverElement(before, a) ==
    IF before.error # "" THEN before
    ELSE IF ~DictHas(before.heap[a], K_Version) THEN Fail("KeyError", before.heap)
    ELSE IF SEMVER_PATTERN_match(DictGet(before.heap[a], K_Version))
         THEN Collect(before, add_semver_details(before.heap, a))
    ELSE IF ~DictHas(before.heap[a], K_Available) THEN Fail("KeyError", before.heap)
    ELSE IF SEMVER_PATTERN_match(DictGet(before.heap[a], K_Available))
         THEN Collect(before, add_semver_details(before.heap, a))
    ELSE before

RECURSIVE SemverComprehension(_, _, _)
SemverComprehension(h, apps, n) ==
    IF n = 0 THEN Done(h, <<>>)
    ELSE SemverElement(SemverComprehension(h, apps, n - 1), apps[n])

get_applications_using_semver(h, apps) == SemverComprehension(h, apps, Len(apps))

Str_all     == Chars("all")
Str_patch   == Chars("patch")
Str_minor   == Chars("minor")
Str_major   == Chars("major")
Str_unknown == Chars("unknown")

BothParsed(d) == DictHas(d, K_current_major) /\ DictHas(d, K_available_major)

IsPatchUpgrade(d) ==
    /\ BothParsed(d)
    /\ DictGet(d, K_current_major) = DictGet(d, K_available_major)
    /\ DictGet(d, K_current_minor) = DictGet(d, K_available_minor)
    /\ DictGet(d, K_current_patch) < DictGet(d, K_available_patch)

\* Mutant: a minor upgrade must not lower the patch component.
IsMinorUpgrade_PatchNotLower(d) ==
    /\ BothParsed(d)
    /\ DictGet(d, K_current_major) = DictGet(d, K_available_major)
    /\ DictGet(d, K_current_minor) < DictGet(d, K_available_minor)
    /\ DictGet(d, K_current_patch) <= DictGet(d, K_available_patch)

IsMinorUpgrade(d) ==
    /\ BothParsed(d)
    /\ DictGet(d, K_current_major) = DictGet(d, K_available_major)
    /\ DictGet(d, K_current_minor) < DictGet(d, K_available_minor)

IsMajorUpgrade(d) ==
    /\ BothParsed(d)
    /\ DictGet(d, K_current_major) < DictGet(d, K_available_major)

\* Mutant: the comparison with "unknown" is case-sensitive.
HasUnknownVersion_CaseSensitive(d) == DictGet(d, K_Version) = Str_unknown

HasUnknownVersion(d) == lower(DictGet(d, K_Version)) = Str_unknown

\* The comprehensions of lines 139-165 over the heap g.
PatchUpgrades(g, apps) == SelectSeq(apps, LAMBDA a : IsPatchUpgrade(g[a]))
MinorUpgrades(g, apps) == SelectSeq(apps, LAMBDA a : IsMinorUpgrade(g[a]))
MajorUpgrades(g, apps) == SelectSeq(apps, LAMBDA a : IsMajorUpgrade(g[a]))
UnknownCurrentVersion(g, apps) == SelectSeq(apps, LAMBDA a : HasUnknownVersion(g[a]))

\* Mutant: level minor selects the minor upgrades only.
SelectByLevel_MinorOnly(g, semver, level, unknowns) ==
    (IF level = Str_patch THEN PatchUpgrades(g, semver)
     ELSE IF level = Str_minor THEN MinorUpgrades(g, semver)
     ELSE IF level = Str_major
          THEN MajorUpgrades(g, semver) \o MinorUpgrades(g, semver)
                   \o PatchUpgrades(g, semver)
     ELSE <<>>)
    \o (IF unknowns THEN UnknownCurrentVersion(g, semver) ELSE <<>>)

\* Lines 139-179, g being the heap and semver the list that line 131 left.
SelectByLevel(g, semver, level, unknowns) ==
    LET apps_with_patch_upgrades == PatchUpgrades(g, semver)
        apps_with_minor_upgrades == MinorUpgrades(g, semver)
        apps_with_major_upgrades == MajorUpgrades(g, semver)
        apps_with_unknown_current_version == UnknownCurrentVersion(g, semver)
    IN  (IF level = Str_patch THEN apps_with_patch_upgrades
         ELSE IF level = Str_minor
              THEN apps_with_minor_upgrades \o apps_with_patch_upgrades
         ELSE IF level = Str_major
              THEN apps_with_major_upgrades \o apps_with_minor_upgrades
                       \o apps_with_patch_upgrades
         ELSE <<>>)
        \o (IF unknowns THEN apps_with_unknown_current_version ELSE <<>>)

\* Lines 133-179, semver being the result of line 131.
AfterSemver(semver, apps, level, unknowns) ==
    IF semver.error # "" THEN semver
    ELSE IF lower(level) = Str_all THEN Done(semver.heap, apps)
    ELSE Done(semver.heap, SelectByLevel(semver.heap, semver.value, level, unknowns))

get_apps_to_upgrade(h, apps, level, unknowns) ==
    AfterSemver(get_applications_using_semver(h, apps), apps, level, unknowns)

get_allowed_updates == {Chars("Python.Python.3")}

get_blocked_updates ==
    {Chars("EvanCzaplicki.Elm"), Chars("VMware.WorkstationPro"),
     Chars("CoreyButler.NVMforWindows")}

HasIds(h, apps) == \A i \in 1..Len(apps) : DictHas(h[apps[i]], K_Id)

add_allowed_updates(h, to_upgrade, apps) ==
    IF ~HasIds(h, apps) THEN Raise("KeyError")
    ELSE Ok(to_upgrade \o
            SelectSeq(apps, LAMBDA a : DictGet(h[a], K_Id) \in get_allowed_updates))

\* Mutant: the block-list is not applied.
remove_blocked_updates_KeepsAll(h, to_upgrade) ==
    IF ~HasIds(h, to_upgrade) THEN Raise("KeyError") ELSE Ok(to_upgrade)

remove_blocked_updates(h, to_upgrade) ==
    IF ~HasIds(h, to_upgrade) THEN Raise("KeyError")
    ELSE Ok(SelectSeq(to_upgrade, LAMBDA a : DictGet(h[a], K_Id) \notin get_blocked_updates))

-----------------------------------------------------------------------------
(* The environment: os.environ and the text "winget upgrade" prints.       *)

\* os.environ.get(key, default) on a variable that is None when unset.
environ_get(value, default) == IF value = None THEN default ELSE value[2]

get_bool_env_var(value, default) ==
    lower(environ_get(value, Chars(default))) = Chars("true")

\* A package winget reports: <<Name, Id, Version, Available, Source>>.
Labels == <<Chars("Name"), Chars("Id"), Chars("Version"), Chars("Available"),
            Chars("Source")>>

RECURSIVE Concat(_)
Concat(ss) == IF ss = <<>> THEN <<>> ELSE Head(ss) \o Concat(Tail(ss))

RECURSIVE Join(_, _)
Join(ss, sep) ==
    IF ss = <<>> THEN <<>>
    ELSE IF Len(ss) = 1 THEN ss[1]
    ELSE ss[1] \o sep \o Join(Tail(ss), sep)

Pad(s, w) == s \o [i \in 1..(w - Len(s)) |-> " "]

MaxOf(S) == CHOOSE m \in S : \A x \in S : x <= m

\* Every column is as wide as its longest cell and one space more; the last
\* one is not padded.
ColumnWidth(pkgs, c) ==
    1 + MaxOf({Len(Labels[c])} \cup {Len(pkgs[i][c]) : i \in 1..Len(pkgs)})

TableLine(pkgs, cells) ==
    Concat([c \in 1..5 |-> IF c < 5 THEN Pad(cells[c], ColumnWidth(pkgs, c)) ELSE cells[c]])

WingetUpgradeOutput(pkgs) ==
    IF pkgs = <<>>
    THEN Chars("No installed package found matching input criteria.") \o CRLF
    ELSE LET header == TableLine(pkgs, Labels)
             rule   == [i \in 1..Len(header) |-> "-"]
             rows   == [i \in 1..Len(pkgs) |-> TableLine(pkgs, pkgs[i])]
         IN  Join(<<header, rule>> \o rows \o <<Chars("upgrades available."), <<>>>>, CRLF)

-----------------------------------------------------------------------------
(* main.                                                                   *)

Log(level, message, arg) == <<level, message, arg>>

\* The except clauses of main (lines 271-278), reached with winget_exe_path
\* bound: every one logs and lets main return.
MainHandlers(e) ==
    IF e = "PermissionError"
    THEN <<Log("ERROR", "Unable to run due to insufficient permissions", <<>>)>>
    ELSE IF e = "FileNotFoundError"
    THEN <<Log("ERROR", e, <<>>), Log("ERROR", "FileNotFoundError thrown in main", <<>>)>>
    ELSE <<Log("ERROR", e, <<>>), Log("ERROR", "Exception thrown in main", <<>>)>>

\* What upgrade_app writes to the log for one application (lines 99-127):
\* subprocess.run is called without check=True, so a non-zero exit code
\* raises nothing.
upgrade_app_log(id, o) ==
    <<Log("INFO", "Attempting to upgrade", id)>> \o
    (IF o = "FileNotFoundError"
     THEN <<Log("ERROR", "executable could not be found", id)>>
     ELSE IF o = "TimeoutExpired"
     THEN <<Log("ERROR", "timed out", id)>>
     ELSE <<>>)

ReadConfig ==
    /\ pc = "start"
    /\ WINGET_DEBUG' = get_bool_env_var(environ.WINGET_DEBUG, "False")
    /\ upgrade_level' = lower(environ_get(environ.WINGET_UPGRADE_LEVEL, Str_patch))
    /\ upgrade_unknowns' = get_bool_env_var(environ.WINGET_UPGRADE_UNKNOWN_VERSIONS, "False")
    /\ pc' = "get_winget_exe_path"
    /\ UNCHANGED <<environ, packages, winget_exe_path, upgradable_applications_table,
                   heap, applications, applications_using_semver, apps_to_upgrade,
                   idx, attempted, outcome, emitted, raised>>

\* Line 243.  A FileNotFoundError reaches the handler of line 273 with
\* winget_exe_path unbound: its second logging call raises and main does not
\* return normally.
GetWingetExePath ==
    /\ pc = "get_winget_exe_path"
    /\ \E o \in {"ok", "PermissionError", "FileNotFoundError"} :
         /\ outcome' = o
         /\ winget_exe_path' = IF o = "ok" THEN Str(Chars("winget.exe")) ELSE winget_exe_path
         /\ pc' = IF o = "ok" THEN "list"
                  ELSE IF o = "PermissionError" THEN "done" ELSE "crashed"
         /\ raised' = IF o = "ok" THEN raised
                      ELSE IF o = "PermissionError" THEN o ELSE "UnboundLocalError"
         /\ emitted' = IF o = "ok" THEN <<>>
                       ELSE IF o = "PermissionError" THEN MainHandlers(o)
                       ELSE <<Log("ERROR", o, <<>>)>>
    /\ UNCHANGED <<environ, packages, WINGET_DEBUG, upgrade_level, upgrade_unknowns,
                   upgradable_applications_table, heap, applications,
                   applications_using_semver, apps_to_upgrade, idx, attempted>>

\* Line 246: get_applications_available_to_upgrade logs a failure and
\* returns None.
GetApplicationsAvailableToUpgrade ==
    /\ pc = "list"
    /\ \E o \in {"ok", "FileNotFoundError", "CalledProcessError", "TimeoutExpired"} :
         /\ outcome' = o
         /\ upgradable_applications_table' =
                IF o = "ok" THEN Str(WingetUpgradeOutput(packages)) ELSE None
         /\ emitted' = IF o = "ok" THEN <<>> ELSE <<Log("ERROR", o, <<>>)>>
    /\ pc' = "parse"
    /\ UNCHANGED <<environ, packages, WINGET_DEBUG, upgrade_level, upgrade_unknowns,
                   winget_exe_path, heap, applications, applications_using_semver,
                   apps_to_upgrade, idx, attempted, raised>>

\* Line 249.
ExtractApplicationsFromTable ==
    /\ pc = "parse"
    /\ \E r \in {extract_applications_from_table(upgradable_applications_table)} :
           /\ raised' = IF r.error # "" THEN r.error ELSE raised
           /\ emitted' = IF r.error # "" THEN MainHandlers(r.error) ELSE <<>>
           /\ pc' = IF r.error # "" THEN "done" ELSE "filter"
           /\ heap' = r.value
           /\ applications' = [i \in 1..Len(r.value) |-> i]
    /\ UNCHANGED <<environ, packages, WINGET_DEBUG, upgrade_level, upgrade_unknowns,
                   winget_exe_path, upgradable_applications_table,
                   applications_using_semver, apps_to_upgrade, idx, attempted, outcome>>

\* Line 252.
GetApplicationsUsingSemver ==
    /\ pc = "filter"
    /\ \E r \in {get_applications_using_semver(heap, applications)} :
           /\ raised' = IF r.error # "" THEN r.error ELSE raised
           /\ emitted' = IF r.error # "" THEN MainHandlers(r.error) ELSE <<>>
           /\ pc' = IF r.error # "" THEN "done" ELSE "select"
           /\ heap' = r.heap
           /\ applications_using_semver' = r.value
    /\ UNCHANGED <<environ, packages, WINGET_DEBUG, upgrade_level, upgrade_unknowns,
                   winget_exe_path, upgradable_applications_table, applications,
                   apps_to_upgrade, idx, attempted, outcome>>

\* Line 255.
GetAppsToUpgrade ==
    /\ pc = "select"
    /\ \E r \in {get_apps_to_upgrade(heap, applications_using_semver, upgrade_level,
                                    upgrade_unknowns)} :
           /\ raised' = IF r.error # "" THEN r.error ELSE raised
           /\ emitted' = IF r.error # "" THEN MainHandlers(r.error) ELSE <<>>
           /\ pc' = IF r.error # "" THEN "done" ELSE "allow"
           /\ heap' = r.heap
           /\ apps_to_upgrade' = r.value
    /\ UNCHANGED <<environ, packages, WINGET_DEBUG, upgrade_level, upgrade_unknowns,
                   winget_exe_path, upgradable_applications_table, applications,
                   applications_using_semver, idx, attempted, outcome>>

\* Line 258.
AddAllowedUpdates ==
    /\ pc = "allow"
    /\ \E r \in {add_allowed_updates(heap, apps_to_upgrade, applications)} :
           /\ raised' = IF r.error # "" THEN r.error ELSE raised
           /\ emitted' = IF r.error # "" THEN MainHandlers(r.error) ELSE <<>>
           /\ pc' = IF r.error # "" THEN "done" ELSE "block"
           /\ apps_to_upgrade' = r.value
    /\ UNCHANGED <<environ, packages, WINGET_DEBUG, upgrade_level, upgrade_unknowns,
                   winget_exe_path, upgradable_applications_table, heap, applications,
                   applications_using_semver, idx, attempted, outcome>>

\* Line 261, and the choice of line 263.
RemoveBlockedUpdates ==
    /\ pc = "block"
    /\ \E r \in {remove_blocked_updates(heap, apps_to_upgrade)} :
           /\ raised' = IF r.error # "" THEN r.error ELSE raised
           /\ emitted' = IF r.error # "" THEN MainHandlers(r.error) ELSE <<>>
           /\ pc' = IF r.error # "" THEN "done"
                    ELSE IF WINGET_DEBUG THEN "debug"
                    ELSE IF r.value = <<>> THEN "done" ELSE "upgrade"
           /\ apps_to_upgrade' = r.value
    /\ idx' = 1
    /\ UNCHANGED <<environ, packages, WINGET_DEBUG, upgrade_level, upgrade_unknowns,
                   winget_exe_path, upgradable_applications_table, heap, applications,
                   applications_using_semver, attempted, outcome>>

\* Lines 264-266: a debug run lists the applications and upgrades none.
ListAppsThatWouldBeUpgraded ==
    /\ pc = "debug"
    /\ emitted' = <<Log("DEBUG", "Listing apps that would have been upgraded", <<>>)>> \o
                  [i \in 1..Len(apps_to_upgrade) |->
                      Log("DEBUG", "json.dumps", heap[apps_to_upgrade[i]])]
    /\ pc' = "done"
    /\ UNCHANGED <<environ, packages, WINGET_DEBUG, upgrade_level, upgrade_unknowns,
                   winget_exe_path, upgradable_applications_table, heap, applications,
                   applications_using_semver, apps_to_upgrade, idx, attempted, outcome,
                   raised>>

\* Lines 269-270: one iteration of the loop, upgrade_app on apps_to_upgrade[idx].
UpgradeApp ==
    /\ pc = "upgrade"
    /\ LET id == DictGet(heap[apps_to_upgrade[idx]], K_Id)
       IN  /\ attempted' = Append(attempted, id)
           /\ \E o \in {"ok", "NonZeroExit", "FileNotFoundError", "TimeoutExpired"} :
                /\ outcome' = o
                /\ emitted' = upgrade_app_log(id, o)
    /\ idx' = idx + 1
    /\ pc' = IF idx = Len(apps_to_upgrade) THEN "done" ELSE "upgrade"
    /\ UNCHANGED <<environ, packages, WINGET_DEBUG, upgrade_level, upgrade_unknowns,
                   winget_exe_path, upgradable_applications_table, heap, applications,
                   applications_using_semver, apps_to_upgrade, raised>>

Next ==
    \/ ReadConfig
    \/ GetWingetExePath
    \/ GetApplicationsAvailableToUpgrade
    \/ ExtractApplicationsFromTable
    \/ GetApplicationsUsingSemver
    \/ GetAppsToUpgrade
    \/ AddAllowedUpdates
    \/ RemoveBlockedUpdates
    \/ ListAppsThatWouldBeUpgraded
    \/ UpgradeApp

-----------------------------------------------------------------------------
(* Initial states.                                                         *)

Unbound == <<"unbound">>

EnvFlags == {None, Str(Chars("True"))}

EnvLevels == {None, Str(Chars("all")), Str(Chars("major")), Str(Chars("Minor")),
              Str(Chars("weekly"))}

Environments ==
    [WINGET_DEBUG : EnvFlags, WINGET_UPGRADE_LEVEL : EnvLevels,
     WINGET_UPGRADE_UNKNOWN_VERSIONS : EnvFlags]

\* <<Version, Available>>: a patch, a minor and a major bump, no change, an
\* unknown installed version in two spellings, and versions that are not
\* semantic versions.
PatchBump    == <<Chars("1.0.0"), Chars("1.0.1")>>
MinorBump    == <<Chars("1.0.5"), Chars("1.1.0")>>
MajorBump    == <<Chars("1.9.9"), Chars("2.0.0")>>
NoBump       == <<Chars("1.2.3"), Chars("1.2.3")>>
UnknownBump  == <<Chars("Unknown"), Chars("2.0.0")>>
UpperUnknown == <<Chars("UNKNOWN"), Chars("2.0.1")>>
TwoPartBump  == <<Chars("3.9"), Chars("3.10")>>

\* <<Name, Id, versions>> of the packages winget can report: one of the
\* allow-list, one of the block-list and one of neither.
Catalogue ==
    {<<Chars("Python"), Chars("Python.Python.3"), {PatchBump, MajorBump, TwoPartBump}>>,
     <<Chars("Elm"), Chars("EvanCzaplicki.Elm"), {PatchBump, UnknownBump, TwoPartBump}>>,
     <<Chars("Foo"), Chars("Foo.Foo"),
       {PatchBump, MinorBump, MajorBump, NoBump, UnknownBump, UpperUnknown, TwoPartBump}>>}

Packages ==
    UNION {{<<n[1], n[2], v[1], v[2], Chars("winget")>> : v \in n[3]} : n \in Catalogue}

\* winget lists a package once.
Listings ==
    UNION {{l \in [1..n -> Packages] : \A i, j \in 1..n : i # j => l[i][2] # l[j][2]}
           : n \in 0..MaxRows}

InitLocals ==
    /\ WINGET_DEBUG = Unbound
    /\ upgrade_level = Unbound
    /\ upgrade_unknowns = Unbound
    /\ winget_exe_path = Unbound
    /\ upgradable_applications_table = Unbound
    /\ heap = <<>>
    /\ applications = <<>>
    /\ applications_using_semver = <<>>
    /\ apps_to_upgrade = <<>>
    /\ idx = 0
    /\ attempted = <<>>
    /\ outcome = ""
    /\ emitted = <<>>
    /\ raised = ""

Init ==
    /\ environ \in Environments
    /\ packages \in Listings
    /\ pc = "start"
    /\ InitLocals

Spec == Init /\ [][Next]_vars

-----------------------------------------------------------------------------
(* The parser on arbitrary small tables: main at line 249, winget having   *)
(* printed any header line over a small alphabet, with or without a        *)
(* control character in front of it, and data rows of any length, or a     *)
(* text cut short.                                                         *)

HeaderAlphabet == {"A", "B", " "}

PlainHeaderLines == UNION {[1..n -> HeaderAlphabet] : n \in 0..MaxHeaderLen}

HeaderLines ==
    PlainHeaderLines \cup {<<BEL>> \o h : h \in {g \in PlainHeaderLines : Len(g) < MaxHeaderLen}}

DataRows == {[i \in 1..n |-> IF i % 2 = 0 THEN " " ELSE "x"] : n \in 0..MaxRowLen}

TableTexts ==
    {Join(<<h, <<"-">>>> \o rows \o <<Chars("upgrades available."), <<>>>>, CRLF) :
        h \in HeaderLines, rows \in UNION {[1..n -> DataRows] : n \in 0..MaxRows}}

\* No line, one line, one line and its line break, two lines.
ShortTexts ==
    {<<>>} \cup HeaderLines \cup {h \o CRLF : h \in HeaderLines}
           \cup {h \o CRLF \o <<"-">> : h \in HeaderLines}

ParseInit ==
    /\ environ = [WINGET_DEBUG |-> None, WINGET_UPGRADE_LEVEL |-> None,
                  WINGET_UPGRADE_UNKNOWN_VERSIONS |-> None]
    /\ packages = <<>>
    /\ pc = "parse"
    /\ WINGET_DEBUG = FALSE
    /\ upgrade_level = Str_patch
    /\ upgrade_unknowns = FALSE
    /\ winget_exe_path = Str(Chars("winget.exe"))
    /\ upgradable_applications_table \in {Str(t) : t \in TableTexts \cup ShortTexts}
    /\ heap = <<>>
    /\ applications = <<>>
    /\ applications_using_semver = <<>>
    /\ apps_to_upgrade = <<>>
    /\ idx = 0
    /\ attempted = <<>>
    /\ outcome = "ok"
    /\ emitted = <<>>
    /\ raised = ""

ParseNext == ExtractApplicationsFromTable

ParseSpec == ParseInit /\ [][ParseNext]_vars

-----------------------------------------------------------------------------
(* Properties of a run of main.                                            *)

Range(seq) == {seq[i] : i \in 1..Len(seq)}

IdOf(a) == DictGet(heap[a], K_Id)

IdsOf(list) == [i \in 1..Len(list) |-> IdOf(list[i])]

\* Lines 255-261 have run without raising: apps_to_upgrade is final.
Final == idx >= 1 /\ raised = ""

\* Lines 249-255 have run without raising.
Classified == pc \in {"allow", "block", "debug", "upgrade"} \/ Final

\* The three integers of a semantic version string.
TripleOf(s) ==
    LET v == SplitOn(s, <<".">>) IN <<int(v[1]), int(v[2]), int(v[3])>>

Overridden(id) == id \in get_allowed_updates \cup get_blocked_updates

\* C1: the final sequence of a run holds no record whose Id is in the
\* block-list, at every upgrade level and for either value of the
\* unknown-versions flag.
C1_NoBlockedIdInFinal ==
    Final => \A i \in 1..Len(apps_to_upgrade) :
                 IdOf(apps_to_upgrade[i]) \notin get_blocked_updates

\* A run at level all whose table lists a block-listed package beside
\* another one has reached its final sequence.
C1_Witness ==
    /\ Final
    /\ upgrade_level = Str_all
    /\ \E a \in Range(applications) : IdOf(a) \in get_blocked_updates
    /\ apps_to_upgrade # <<>>

\* C2: at level all the final result holds every parsed record whose Id is
\* not block-listed, semantic version or not, and no block-listed one.
C2_AllKeepsEveryUnblockedRecord ==
    (Final /\ upgrade_level = Str_all) =>
        /\ \A a \in Range(applications) :
               IdOf(a) \notin get_blocked_updates => a \in Range(apps_to_upgrade)
        /\ \A a \in Range(apps_to_upgrade) : IdOf(a) \notin get_blocked_updates

\* A parsed record with an unknown installed version, a semantic version
\* available and an Id in neither list.
UnknownVersionRecord(a) ==
    /\ lower(DictGet(heap[a], K_Version)) = Str_unknown
    /\ SEMVER_PATTERN_match(DictGet(heap[a], K_Available))
    /\ ~Overridden(IdOf(a))

\* C3, as stated: such a record is in the final result only when the
\* unknown-versions flag is true, at every level, all included; with the
\* flag true it is there at levels major, minor and patch.
C3_UnknownOnlyWithFlag ==
    Final => \A a \in Range(applications) : UnknownVersionRecord(a) =>
                 /\ a \in Range(apps_to_upgrade) => upgrade_unknowns
                 /\ (upgrade_unknowns /\ upgrade_level \in {Str_major, Str_minor, Str_patch})
                        => a \in Range(apps_to_upgrade)

\* C3, amended: at every level but all such a record is in the final result
\* exactly when the unknown-versions flag is true; at level all it is in the
\* final result whatever the flag.
C3_UnknownWithFlagExceptAll ==
    Final => \A a \in Range(applications) : UnknownVersionRecord(a) =>
                 IF upgrade_level = Str_all
                 THEN a \in Range(apps_to_upgrade)
                 ELSE (a \in Range(apps_to_upgrade)) <=> upgrade_unknowns

\* At level patch with the flag set, a record whose Version is spelled
\* "Unknown" or "UNKNOWN" is in the final result.
C3_Witness ==
    /\ Final
    /\ upgrade_level = Str_patch
    /\ upgrade_unknowns
    /\ \E a \in Range(apps_to_upgrade) :
           UnknownVersionRecord(a) /\ DictGet(heap[a], K_Version) # Str_unknown

\* get_apps_to_upgrade on the list main hands it, at another level.
ResultAt(level) ==
    Range(get_apps_to_upgrade(heap, applications_using_semver, level, upgrade_unknowns).value)

\* C4: for the same record list and flag, what get_apps_to_upgrade returns
\* at level patch is a subset of what it returns at level minor, which is a
\* subset of what it returns at level major.  Stated where main has just
\* called it (line 255), on the list and the flag of that call.
C4_LevelMonotonicity ==
    pc = "allow" => /\ ResultAt(Str_patch) \subseteq ResultAt(Str_minor)
                    /\ ResultAt(Str_minor) \subseteq ResultAt(Str_major)

\* get_apps_to_upgrade has returned at level minor, and its result has a
\* record that the non-empty result at level patch has not.
C4_Witness ==
    /\ pc = "allow"
    /\ upgrade_level = Str_minor
    /\ Range(apps_to_upgrade) = ResultAt(Str_minor)
    /\ ResultAt(Str_patch) # {}
    /\ ResultAt(Str_patch) # ResultAt(Str_minor)
    /\ ResultAt(Str_minor) = ResultAt(Str_major)

\* The table has one data row, of a package in neither list whose versions
\* are semantic versions with equal majors and a higher minor available.
OneMinorBumpRow ==
    /\ Len(packages) = 1
    /\ ~Overridden(packages[1][2])
    /\ SEMVER_PATTERN_match(packages[1][3])
    /\ SEMVER_PATTERN_match(packages[1][4])
    /\ TripleOf(packages[1][3])[1] = TripleOf(packages[1][4])[1]
    /\ TripleOf(packages[1][3])[2] < TripleOf(packages[1][4])[2]

\* The dict a holds the cells of the package p.
RecordOfPackage(a, p) ==
    \A c \in 1..5 : DictHas(heap[a], Labels[c]) /\ DictGet(heap[a], Labels[c]) = p[c]

\* C5: for a table with one such row, parse and classification at level
\* minor yield a result holding that record, and at level patch an empty
\* result, whatever the patch components are.
C5_MinorBumpRow ==
    (Final /\ OneMinorBumpRow) =>
        /\ upgrade_level = Str_minor =>
               \E a \in Range(apps_to_upgrade) : RecordOfPackage(a, packages[1])
        /\ upgrade_level = Str_patch => apps_to_upgrade = <<>>

\* The row 1.0.5 -> 1.1.0, whose patch component goes down, has been parsed
\* and selected at level minor.
C5_Witness ==
    /\ Final
    /\ OneMinorBumpRow
    /\ upgrade_level = Str_minor
    /\ Len(apps_to_upgrade) = 1
    /\ TripleOf(packages[1][3])[3] > TripleOf(packages[1][4])[3]

\* An upgrade has been attempted in a run that is not a debug run.
Upgrading == Final /\ ~WINGET_DEBUG /\ idx >= 2

\* C8: a non-debug run attempts the records of the final sequence one at a
\* time and in order, all of them by the time it ends, and an attempt that
\* fails (executable not found, non-zero exit code, timeout) is logged as an
\* error.
C8_EveryUpgradeAttemptedAndFailuresLogged ==
    /\ (Final /\ ~WINGET_DEBUG) =>
           /\ attempted = SubSeq(IdsOf(apps_to_upgrade), 1, Len(attempted))
           /\ pc = "done" => attempted = IdsOf(apps_to_upgrade)
    /\ (Upgrading /\ outcome \in {"FileNotFoundError", "NonZeroExit", "TimeoutExpired"}) =>
           \E i \in 1..Len(emitted) :
               emitted[i][1] = "ERROR" /\ emitted[i][3] = attempted[Len(attempted)]

\* The part of C8 that the code keeps: the attempts are those of the final
\* sequence, in order, and no failure of one stops the loop.
AttemptsFollowFinalSequence ==
    (Final /\ ~WINGET_DEBUG) =>
        /\ attempted = SubSeq(IdsOf(apps_to_upgrade), 1, Len(attempted))
        /\ Len(attempted) = (IF idx = 0 THEN 0 ELSE idx - 1)
        /\ pc = "done" => attempted = IdsOf(apps_to_upgrade)

-----------------------------------------------------------------------------
(* Properties of the parser.                                               *)

\* The text handed to the parser, split at its line breaks.
TextParts == SplitOn(upgradable_applications_table[2], CRLF)

\* The lines of the text: a final line break ends the last line.
LineCount ==
    IF TextParts[Len(TextParts)] = <<>> THEN Len(TextParts) - 1 ELSE Len(TextParts)

HeaderLine == TextParts[1]

\* The printable labels of the header line, and where their tokens begin
\* (0-based).
HeaderLabels == SelectSeq(split(HeaderLine), isprintable)

LabelStarts ==
    LET starts == Ascending({i \in TokenStarts(HeaderLine) : isprintable(TokenAt(HeaderLine, i))})
    IN  [k \in 1..Len(starts) |-> starts[k] - 1]

PairwiseDistinct(seq) == \A i, j \in 1..Len(seq) : i # j => seq[i] # seq[j]

\* seq without the repetitions of its elements.
FirstOccurrences(seq) ==
    LET keep == Ascending({i \in 1..Len(seq) : \A j \in 1..(i - 1) : seq[j] # seq[i]})
    IN  [k \in 1..Len(keep) |-> seq[keep[k]]]

\* The data rows: what lies between the header and separator lines and the
\* two trailing lines.
DataRowsOfText == SubSeq(TextParts, 3, Len(TextParts) - 2)

\* extract_applications_from_table has returned a list.
Parsed == pc = "filter"

\* C6, as stated: every record has exactly k keys, the k labels of the
\* header line in header order, also when two labels are the same string
\* and when a data row is shorter than a column's start offset.
C6_EveryRecordHasTheHeaderLabels ==
    Parsed => \A a \in 1..Len(heap) : DictKeys(heap[a]) = HeaderLabels

\* C6, amended: every record has as keys the distinct labels of the header
\* line, in the order of their first occurrence: exactly k keys when the k
\* labels are pairwise distinct, fewer when a label is repeated; this holds
\* also when a data row is shorter than a column's start offset.  There is
\* one record for each data row.
C6_EveryRecordHasTheDistinctLabels ==
    Parsed =>
        /\ Len(heap) = Len(DataRowsOfText)
        /\ \A a \in 1..Len(heap) :
               /\ DictKeys(heap[a]) = FirstOccurrences(HeaderLabels)
               /\ PairwiseDistinct(HeaderLabels) => Len(heap[a]) = Len(HeaderLabels)
               /\ ~PairwiseDistinct(HeaderLabels) => Len(heap[a]) < Len(HeaderLabels)

\* A header line with the same label twice, and a record parsed under it.
C6_Witness ==
    /\ Parsed
    /\ ~PairwiseDistinct(HeaderLabels)
    /\ \E a \in 1..Len(heap) : Len(heap[a]) = 1

\* Two distinct labels, and a data row that ends before the second column
\* begins: its record has both keys.
ShortRowParsed ==
    /\ Parsed
    /\ Len(HeaderLabels) = 2
    /\ PairwiseDistinct(HeaderLabels)
    /\ \E r \in 1..Len(heap) :
           /\ Len(DataRowsOfText[r]) < LabelStarts[2] - LabelStarts[1]
           /\ Len(heap[r]) = 2 /\ heap[r][2][2] = <<>>

NoPrintableLabel == HeaderLabels = <<>>

\* C7, as stated: a text of fewer than 2 lines, or one whose header line has
\* no printable token, makes the parser fail with a MalformedTableError and
\* return no record list.
C7_FailsWithMalformedTableError ==
    (pc # "parse" /\ (LineCount < 2 \/ NoPrintableLabel)) =>
        /\ raised = "MalformedTableError"
        /\ heap = <<>> /\ applications = <<>>

\* C7, amended: on such a text the parser fails with an IndexError, which
\* main's catch-all handler logs before main returns; no record list, not
\* even a partial one, is returned.
C7_FailsWithIndexError ==
    (pc # "parse" /\ (LineCount < 2 \/ NoPrintableLabel)) =>
        /\ raised = "IndexError"
        /\ pc = "done"
        /\ heap = <<>> /\ applications = <<>>
        /\ emitted = MainHandlers("IndexError")

\* A complete table with data rows whose header line has no printable
\* label has been refused.
C7_Witness ==
    /\ pc = "done"
    /\ raised = "IndexError"
    /\ NoPrintableLabel
    /\ HeaderLine # <<>>
    /\ DataRowsOfText # <<>>

\* One line only: refused as well.
OneLineRefused == pc = "done" /\ raised = "IndexError" /\ LineCount = 1 /\ ~NoPrintableLabel

\* C10: under a header line with pairwise distinct labels, the start offsets
\* are strictly increasing from 0, each the position at which the label's
\* own token begins less that of the first label, also when a label is a
\* substring of an earlier one.
C10_OffsetsAreTheTokenStarts ==
    (Parsed /\ PairwiseDistinct(HeaderLabels)) =>
        LET hp == get_headers_and_their_starting_positions(SubSeq(TextParts, 1, Len(TextParts) - 2)).value
        IN  /\ Len(hp) = Len(HeaderLabels)
            /\ hp[1][2] = 0
            /\ \A i \in 1..Len(hp) : hp[i][2] = LabelStarts[i] - LabelStarts[1]
            /\ \A i \in 1..(Len(hp) - 1) : hp[i][2] < hp[i + 1][2]

=============================================================================
